---- MODULE Spec2Model ----
(***************************************************************************)
(* Model of ping_sweepv2.py: main() clamps the arguments and calls         *)
(* sweep_network(), which expands the CIDR range, submits one ping_once    *)
(* task per host to a ThreadPoolExecutor, collects the futures with        *)
(* as_completed() and returns the list of (ip, up) pairs.                  *)
(***************************************************************************)
EXTENDS Integers, Sequences, FiniteSets, TLC

\* ---------------------------------------------------------------- bounds
\* largest --threads value tried
MaxThreads == 2
\* longest host list tried: of the networks below, those with more hosts are
\* left out (a /30 and a /31 have two hosts, a /32 one, a /29 six)
MaxHosts == 2

\* widest network expanded on its own: prefix lengths from
\* 32 - MaxExpandBits to 30
MaxExpandBits == 8

\* largest --timeout value for which the ping command is built on its own
MaxTimeoutMs == 2001

\* ---------------------------------------------------------------- inputs
Max(a, b) == IF a >= b THEN a ELSE b

\* A CIDR string is modelled by its tokens: the dot-separated address fields
\* (-1 for a field that is not a decimal number) and the prefix length.
NotANetwork == [octets |-> <<-1>>, prefix |-> 32]

Prefixes == 29..33

ThreadArgs == -1..MaxThreads
TimeoutArgs == {-1, 0, 1500}
Systems == {"Windows", "Linux"}

\* what the spawned ping process can do: exit 0, exit non-zero, or fail to
\* spawn (executable missing, or another OSError such as PermissionError)
ProcOutcomes == {"exit0", "exit1", "FileNotFoundError", "PermissionError"}

VARIABLES
    args,        \* argparse namespace: network, threads, timeout, quiet
    system,      \* platform.system()
    pc,          \* position of the main thread
    threads,     \* sweep_network parameter threads
    timeout_ms,  \* sweep_network parameter timeout_ms
    raised,      \* exception propagating out of sweep_network ("none" if none)
    hosts,       \* list of host strings (dotted quads as 4-tuples)
    nsub,        \* number of hosts already submitted to the executor
    fstate,      \* per host: state of its future
    fres,        \* per host: result / exception stored in its future
    proc,        \* per host: state of the spawned ping process
    cmd,         \* per host: command line ping_once ran
    nstart,      \* per host: number of times ping_once was started
    queue,       \* executor work queue (FIFO of host indices)
    nthreads,    \* number of worker threads the executor has spawned
    idle,        \* executor idle semaphore
    initial,     \* as_completed: futures already finished when it was called
    waiterq,     \* as_completed: futures finished since, in completion order
    yielded,     \* futures the collection loop has processed
    order,       \* the same futures, in the order the loop processed them
    results,     \* the results list
    log,         \* records emitted through the logger
    exitStatus   \* process exit status (-1 while running)

vars == <<args, system, pc, threads, timeout_ms, raised, hosts, nsub, fstate,
          fres, proc, cmd, nstart, queue, nthreads, idle, initial, waiterq,
          yielded, order, results, log, exitStatus>>

\* ------------------------------------------------------- pure functions

\* mutant of get_ping_command: the seconds are rounded down
get_ping_command_floor(ip, t) ==
    IF system = "Windows"
    THEN <<"ping", "-n", 1, "-w", t, ip>>
    ELSE <<"ping", "-c", 1, "-W", Max(1, t \div 1000), ip>>

\* get_ping_command(ip, timeout_ms)
get_ping_command(ip, t) ==
    IF system = "Windows"
    THEN <<"ping", "-n", 1, "-w", t, ip>>
    ELSE <<"ping", "-c", 1, "-W", Max(1, (t + 999) \div 1000), ip>>

\* ping_once: what the call returns or raises, given what the process did
ping_once(out) ==
    CASE out = "exit0" -> "True"
      [] out = "exit1" -> "False"
      [] out = "FileNotFoundError" -> "RuntimeError"
      [] OTHER -> out

\* mutant of ValidCidr: the range test of an address field is off by one
ValidCidrLax(n) ==
    /\ Len(n.octets) = 4
    /\ \A k \in 1..4 : n.octets[k] \in 0..256
    /\ n.prefix \in 0..32

\* ipaddress.ip_network(s, strict=False): does the string parse
ValidCidr(n) ==
    /\ Len(n.octets) = 4
    /\ \A k \in 1..4 : n.octets[k] \in 0..255
    /\ n.prefix \in 0..32

AddrInt(o) == o[1] * 16777216 + o[2] * 65536 + o[3] * 256 + o[4]

\* str(IPv4Address)
IpStr(a) == <<a \div 16777216, (a \div 65536) % 256, (a \div 256) % 256, a % 256>>

\* network address: host bits masked off (strict=False)
NetworkAddress(n) == AddrInt(n.octets) - (AddrInt(n.octets) % (2 ^ (32 - n.prefix)))
BroadcastAddress(n) == NetworkAddress(n) + 2 ^ (32 - n.prefix) - 1

\* mutant of HostList: the network itself is iterated instead of its hosts()
HostListWithNetwork(n) ==
    [k \in 1..(2 ^ (32 - n.prefix)) |->
        <<(NetworkAddress(n) + k - 1) \div 16777216,
          ((NetworkAddress(n) + k - 1) \div 65536) % 256,
          ((NetworkAddress(n) + k - 1) \div 256) % 256,
          (NetworkAddress(n) + k - 1) % 256>>]

\* [str(ip) for ip in net.hosts()]
Range(a, b) == [k \in 1..(b - a + 1) |-> IpStr(a + k - 1)]
HostList(n) ==
    IF n.prefix = 32 THEN <<IpStr(NetworkAddress(n))>>
    ELSE IF n.prefix = 31 THEN Range(NetworkAddress(n), BroadcastAddress(n))
    ELSE Range(NetworkAddress(n) + 1, BroadcastAddress(n) - 1)

\* the command lines tried: 10.0.0.5/p (host bits set), an address field out
\* of range, a string that is no address at all
Networks ==
    {n \in {[octets |-> <<10, 0, 0, 5>>, prefix |-> p] : p \in Prefixes} :
        ValidCidr(n) => Len(HostList(n)) <= MaxHosts}
        \cup {[octets |-> <<10, 0, 0, 256>>, prefix |-> 30], NotANetwork}

Running == {i \in DOMAIN fstate : fstate[i] = "RUNNING"}

LogRec(level, kind, ip, text, a, b) ==
    [level |-> level, kind |-> kind, ip |-> ip, text |-> text, a |-> a, b |-> b]

\* ---------------------------------------------------------------- Init
Init ==
    /\ args \in [network : Networks, threads : ThreadArgs,
                 timeout : TimeoutArgs, quiet : BOOLEAN]
    /\ system \in Systems
    /\ pc = "main"
    /\ threads = 0
    /\ timeout_ms = 0
    /\ raised = "none"
    /\ hosts = <<>>
    /\ nsub = 0
    /\ fstate = <<>>
    /\ fres = <<>>
    /\ proc = <<>>
    /\ cmd = <<>>
    /\ nstart = <<>>
    /\ queue = <<>>
    /\ nthreads = 0
    /\ idle = 0
    /\ initial = {}
    /\ waiterq = <<>>
    /\ yielded = {}
    /\ order = <<>>
    /\ results = <<>>
    /\ log = <<>>
    /\ exitStatus = -1

\* ------------------------------------------------------- main thread

\* mutant of MainCall: the arguments are passed on without max(1, ...)
MainCallNoClamp ==
    /\ pc = "main"
    /\ threads' = args.threads
    /\ timeout_ms' = args.timeout
    /\ pc' = "sweep"
    /\ UNCHANGED <<args, system, raised, hosts, nsub, fstate, fres, proc, cmd,
                   nstart, queue, nthreads, idle, initial, waiterq, yielded,
                   order, results, log, exitStatus>>

\* main(): parse_args, then the call sweep_network(network, max(1, threads),
\* max(1, timeout), quiet)
MainCall ==
    /\ pc = "main"
    /\ threads' = Max(1, args.threads)
    /\ timeout_ms' = Max(1, args.timeout)
    /\ pc' = "sweep"
    /\ UNCHANGED <<args, system, raised, hosts, nsub, fstate, fres, proc, cmd, nstart,
                   queue, nthreads, idle, initial, waiterq, yielded, order, results,
                   log, exitStatus>>

\* sweep_network up to the creation of the executor: ip_network() raises
\* ValueError for a malformed string; otherwise the host list is built and
\* the start line logged
SweepBegin ==
    /\ pc = "sweep"
    /\ IF ValidCidr(args.network)
       THEN /\ hosts' = HostList(args.network)
            /\ fstate' = [i \in 1..Len(hosts') |-> "none"]
            /\ fres' = [i \in 1..Len(hosts') |-> "none"]
            /\ proc' = [i \in 1..Len(hosts') |-> "none"]
            /\ cmd' = [i \in 1..Len(hosts') |-> <<>>]
            /\ nstart' = [i \in 1..Len(hosts') |-> 0]
            /\ log' = Append(log, LogRec("INFO", "start", <<>>, "",
                                         Len(hosts'), threads))
            /\ pc' = "submit"
            /\ UNCHANGED raised
       ELSE /\ raised' = "ValueError"
            /\ pc' = "after_sweep"
            /\ UNCHANGED <<hosts, fstate, fres, proc, cmd, nstart, log>>
    /\ UNCHANGED <<args, system, threads, timeout_ms, nsub, queue, nthreads,
                   idle, initial, waiterq, yielded, order, results, exitStatus>>

\* mutant of AdjustThreadCount: a worker is spawned for every submission
AdjustThreadCountUnbounded ==
    /\ nthreads' = nthreads + 1
    /\ UNCHANGED idle

\* ThreadPoolExecutor._adjust_thread_count: spawn a worker unless one is idle
\* or max_workers threads exist
AdjustThreadCount ==
    IF idle > 0
    THEN /\ idle' = idle - 1
         /\ UNCHANGED nthreads
    ELSE /\ nthreads' = IF nthreads < threads THEN nthreads + 1 ELSE nthreads
         /\ UNCHANGED idle

\* executor.submit(ping_once, ip, timeout_ms) for the next host
Submit ==
    /\ pc = "submit"
    /\ nsub < Len(hosts)
    /\ nsub' = nsub + 1
    /\ fstate' = [fstate EXCEPT ![nsub + 1] = "PENDING"]
    /\ queue' = Append(queue, nsub + 1)
    /\ AdjustThreadCount
    /\ UNCHANGED <<args, system, pc, threads, timeout_ms, raised, hosts, fres,
                   proc, cmd, nstart, initial, waiterq, yielded, order, results, log,
                   exitStatus>>

\* as_completed(futures) is entered: the futures already finished are noted,
\* a waiter is installed on the others
AsCompleted ==
    /\ pc = "submit"
    /\ nsub = Len(hosts)
    /\ initial' = {i \in DOMAIN fstate : fstate[i] = "FINISHED"}
    /\ waiterq' = <<>>
    /\ pc' = "collect"
    /\ UNCHANGED <<args, system, threads, timeout_ms, raised, hosts, nsub,
                   fstate, fres, proc, cmd, nstart, queue, nthreads, idle, yielded, order,
                   results, log, exitStatus>>

\* mutant of LoopBody: the except branch skips the append
LoopBodySkip(i) ==
    LET failed == fres[i] \notin {"True", "False"}
    IN  /\ results' = IF failed THEN results
                      ELSE Append(results, <<hosts[i], fres[i] = "True">>)
        /\ log' = log
        /\ UNCHANGED <<raised, pc>>

\* mutant of LoopBody: the outcome is paired with the host at the position of
\* the new entry instead of the host of the future
LoopBodyByPosition(i) ==
    /\ results' = Append(results, <<hosts[Len(results) + 1], fres[i] = "True">>)
    /\ log' = log
    /\ UNCHANGED <<raised, pc>>

\* mutant of LoopBody: only RuntimeError is caught, any other exception of
\* the probe leaves the loop
LoopBodyCatchRuntimeError(i) ==
    IF fres[i] \in {"True", "False", "RuntimeError"}
    THEN /\ results' = Append(results, <<hosts[i], fres[i] = "True">>)
         /\ log' = log
         /\ UNCHANGED <<raised, pc>>
    ELSE /\ raised' = fres[i]
         /\ pc' = "shutdown"
         /\ UNCHANGED <<results, log>>

\* mutant of LoopBody: in quiet mode the append is skipped with the host line
LoopBodyQuietSkipsAppend(i) ==
    LET failed == fres[i] \notin {"True", "False"}
        up == IF failed THEN FALSE ELSE fres[i] = "True"
        l1 == IF failed
              THEN Append(log, LogRec("ERROR", "error", hosts[i], fres[i], 0, 0))
              ELSE log
    IN  /\ results' = IF args.quiet THEN results
                      ELSE Append(results, <<hosts[i], up>>)
        /\ log' = IF args.quiet THEN l1
                  ELSE Append(l1, LogRec("INFO", "host", hosts[i],
                                         IF up THEN "UP" ELSE "DOWN", 0, 0))
        /\ UNCHANGED <<raised, pc>>

\* body of the collection loop for future i: up = fut.result(), any Exception
\* makes up False and is logged; the pair is appended; the host line is logged
LoopBody(i) ==
    LET failed == fres[i] \notin {"True", "False"}
        up == IF failed THEN FALSE ELSE fres[i] = "True"
        l1 == IF failed
              THEN Append(log, LogRec("ERROR", "error", hosts[i], fres[i], 0, 0))
              ELSE log
    IN  /\ results' = Append(results, <<hosts[i], up>>)
        /\ log' = IF args.quiet THEN l1
                  ELSE Append(l1, LogRec("INFO", "host", hosts[i],
                                         IF up THEN "UP" ELSE "DOWN", 0, 0))
        /\ UNCHANGED <<raised, pc>>

\* one iteration of "for fut in as_completed(futures)": the futures finished
\* before the call come first, in the order of a set; the others in the order
\* in which they finished
Collect(i) ==
    /\ pc = "collect"
    /\ IF initial # {}
       THEN /\ i \in initial
            /\ initial' = initial \ {i}
            /\ UNCHANGED waiterq
       ELSE /\ waiterq # <<>>
            /\ i = Head(waiterq)
            /\ waiterq' = Tail(waiterq)
            /\ UNCHANGED initial
    /\ yielded' = yielded \cup {i}
    /\ order' = Append(order, i)
    /\ LoopBody(i)
    /\ UNCHANGED <<args, system, threads, timeout_ms, hosts, nsub, fstate,
                   fres, proc, cmd, nstart, queue, nthreads, idle, exitStatus>>

\* as_completed is exhausted: the with block is left
LoopEnd ==
    /\ pc = "collect"
    /\ yielded = DOMAIN fstate
    /\ pc' = "shutdown"
    /\ UNCHANGED <<args, system, threads, timeout_ms, raised, hosts, nsub,
                   fstate, fres, proc, cmd, nstart, queue, nthreads, idle, initial,
                   waiterq, yielded, order, results, log, exitStatus>>

\* a KeyboardInterrupt reaches the main thread inside the with block: it is
\* no Exception, so it leaves the block
KeyboardInterrupt ==
    /\ pc \in {"submit", "collect"}
    /\ raised' = "KeyboardInterrupt"
    /\ pc' = "shutdown"
    /\ UNCHANGED <<args, system, threads, timeout_ms, hosts, nsub, fstate,
                   fres, proc, cmd, nstart, queue, nthreads, idle, initial, waiterq,
                   yielded, order, results, log, exitStatus>>

\* mutant of ShutdownJoined: shutdown(wait=False)
ShutdownNoWait == TRUE

\* what executor.shutdown(wait=True) waits for: the queue drained and every
\* worker back from its task
ShutdownJoined == queue = <<>> /\ Running = {}

\* ThreadPoolExecutor.__exit__: shutdown(wait=True), then sweep_network
\* returns results or the exception goes on to the caller
Shutdown ==
    /\ pc = "shutdown"
    /\ ShutdownJoined
    /\ pc' = "after_sweep"
    /\ UNCHANGED <<args, system, threads, timeout_ms, raised, hosts, nsub,
                   fstate, fres, proc, cmd, nstart, queue, nthreads, idle, initial,
                   waiterq, yielded, order, results, log, exitStatus>>

\* mutant of UpCount: every entry is counted, up or not
UpCountAll == Len(results)

\* up_count = sum(1 for _, up in results if up)
UpCount == Cardinality({k \in 1..Len(results) : results[k][2]})

\* mutant of MainAfterSweep: the summary is logged whenever the exception is
\* not a RuntimeError, as from a finally clause
MainAfterSweepAlwaysSummary ==
    /\ pc = "after_sweep"
    /\ pc' = "exited"
    /\ CASE raised = "RuntimeError" ->
              /\ log' = Append(log, LogRec("CRITICAL", "critical", <<>>, raised, 0, 0))
              /\ exitStatus' = 1
         [] OTHER ->
              /\ log' = Append(log, LogRec("INFO", "finished", <<>>, "",
                                           UpCount, Len(results)))
              /\ exitStatus' = IF raised = "none" THEN 0 ELSE 1
    /\ UNCHANGED <<args, system, threads, timeout_ms, raised, hosts, nsub,
                   fstate, fres, proc, cmd, nstart, queue, nthreads, idle,
                   initial, waiterq, yielded, order, results>>

\* main() after the call: RuntimeError is logged as critical and the process
\* exits 1; any other exception is uncaught; otherwise the summary is logged
MainAfterSweep ==
    /\ pc = "after_sweep"
    /\ pc' = "exited"
    /\ CASE raised = "RuntimeError" ->
              /\ log' = Append(log, LogRec("CRITICAL", "critical", <<>>, raised, 0, 0))
              /\ exitStatus' = 1
         [] raised = "KeyboardInterrupt" ->
              /\ exitStatus' = 130
              /\ UNCHANGED log
         [] raised = "ValueError" ->
              /\ exitStatus' = 1
              /\ UNCHANGED log
         [] OTHER ->
              /\ log' = Append(log, LogRec("INFO", "finished", <<>>, "",
                                           UpCount, Len(results)))
              /\ exitStatus' = 0
    /\ UNCHANGED <<args, system, threads, timeout_ms, raised, hosts, nsub,
                   fstate, fres, proc, cmd, nstart, queue, nthreads, idle, initial,
                   waiterq, yielded, order, results>>

\* ------------------------------------------------------- worker threads

\* a worker takes the next work item and runs ping_once up to subprocess.run
ProbeStart(i) ==
    /\ queue # <<>>
    /\ i = Head(queue)
    /\ Cardinality(Running) < nthreads
    /\ queue' = Tail(queue)
    /\ fstate' = [fstate EXCEPT ![i] = "RUNNING"]
    /\ proc' = [proc EXCEPT ![i] = "running"]
    /\ cmd' = [cmd EXCEPT ![i] = get_ping_command(hosts[i], timeout_ms)]
    /\ nstart' = [nstart EXCEPT ![i] = @ + 1]
    /\ UNCHANGED <<args, system, pc, threads, timeout_ms, raised, hosts, nsub,
                   fres, nthreads, idle, initial, waiterq, yielded, order, results,
                   log, exitStatus>>

\* mutant of ProbeFinish: a probe that did not succeed is queued again
ProbeFinishRetry(i, out) ==
    /\ i \in DOMAIN fstate
    /\ fstate[i] = "RUNNING"
    /\ proc[i] = "running"
    /\ IF out = "exit0"
       THEN /\ proc' = [proc EXCEPT ![i] = out]
            /\ fres' = [fres EXCEPT ![i] = ping_once(out)]
            /\ fstate' = [fstate EXCEPT ![i] = "FINISHED"]
            /\ waiterq' = IF pc = "collect" THEN Append(waiterq, i) ELSE waiterq
            /\ UNCHANGED queue
       ELSE /\ proc' = [proc EXCEPT ![i] = "none"]
            /\ fstate' = [fstate EXCEPT ![i] = "PENDING"]
            /\ queue' = Append(queue, i)
            /\ UNCHANGED <<fres, waiterq>>
    /\ idle' = idle + 1
    /\ UNCHANGED <<args, system, pc, threads, timeout_ms, raised, hosts, nsub,
                   cmd, nstart, nthreads, initial, yielded, order, results,
                   log, exitStatus>>

\* mutant of ProbeFinish: the waiter of as_completed is not told
ProbeFinishNoNotify(i, out) ==
    /\ i \in DOMAIN fstate
    /\ fstate[i] = "RUNNING"
    /\ proc[i] = "running"
    /\ proc' = [proc EXCEPT ![i] = out]
    /\ fres' = [fres EXCEPT ![i] = ping_once(out)]
    /\ fstate' = [fstate EXCEPT ![i] = "FINISHED"]
    /\ idle' = idle + 1
    /\ UNCHANGED <<args, system, pc, threads, timeout_ms, raised, hosts, nsub,
                   cmd, nstart, queue, nthreads, initial, waiterq, yielded,
                   order, results, log, exitStatus>>

\* mutant of ProbeFinish: the worker itself appends the outcome to results
ProbeFinishAppends(i, out) ==
    /\ i \in DOMAIN fstate
    /\ fstate[i] = "RUNNING"
    /\ proc[i] = "running"
    /\ proc' = [proc EXCEPT ![i] = out]
    /\ fres' = [fres EXCEPT ![i] = ping_once(out)]
    /\ fstate' = [fstate EXCEPT ![i] = "FINISHED"]
    /\ waiterq' = IF pc = "collect" THEN Append(waiterq, i) ELSE waiterq
    /\ idle' = idle + 1
    /\ results' = Append(results, <<hosts[i], out = "exit0">>)
    /\ UNCHANGED <<args, system, pc, threads, timeout_ms, raised, hosts, nsub,
                   cmd, nstart, queue, nthreads, initial, yielded, order, log,
                   exitStatus>>

\* subprocess.run comes back (the process exited or could not be spawned):
\* ping_once returns or raises, the future is finished and its waiter told
ProbeFinish(i, out) ==
    /\ i \in DOMAIN fstate
    /\ fstate[i] = "RUNNING"
    /\ proc[i] = "running"
    /\ proc' = [proc EXCEPT ![i] = out]
    /\ fres' = [fres EXCEPT ![i] = ping_once(out)]
    /\ fstate' = [fstate EXCEPT ![i] = "FINISHED"]
    /\ waiterq' = IF pc = "collect" THEN Append(waiterq, i) ELSE waiterq
    /\ idle' = idle + 1
    /\ UNCHANGED <<args, system, pc, threads, timeout_ms, raised, hosts, nsub,
                   cmd, nstart, queue, nthreads, initial, yielded, order, results, log,
                   exitStatus>>

\* the spawned ping process is one that never exits: subprocess.run is given
\* no timeout, so nothing ends the wait
ProbeHang(i) ==
    /\ i \in DOMAIN fstate
    /\ fstate[i] = "RUNNING"
    /\ proc[i] = "running"
    /\ proc' = [proc EXCEPT ![i] = "hung"]
    /\ UNCHANGED <<args, system, pc, threads, timeout_ms, raised, hosts, nsub,
                   fstate, fres, cmd, nstart, queue, nthreads, idle, initial, waiterq,
                   yielded, order, results, log, exitStatus>>

HostIdx == 1..MaxHosts

Next ==
    \/ MainCall
    \/ SweepBegin
    \/ Submit
    \/ AsCompleted
    \/ \E i \in HostIdx : Collect(i)
    \/ LoopEnd
    \/ KeyboardInterrupt
    \/ Shutdown
    \/ MainAfterSweep
    \/ \E i \in HostIdx : ProbeStart(i)
    \/ \E i \in HostIdx, out \in ProcOutcomes : ProbeFinish(i, out)
    \/ \E i \in HostIdx : ProbeHang(i)

Spec == Init /\ [][Next]_vars

\* fairness of the scheduler: the main thread and every worker keep running,
\* and a ping process that is going to exit does exit; nothing forces a
\* KeyboardInterrupt or a process that never exits
MainStep ==
    \/ MainCall
    \/ SweepBegin
    \/ Submit
    \/ AsCompleted
    \/ \E i \in HostIdx : Collect(i)
    \/ LoopEnd
    \/ Shutdown
    \/ MainAfterSweep

FairSpec ==
    /\ Spec
    /\ WF_vars(MainStep)
    /\ \A i \in HostIdx : WF_vars(ProbeStart(i))
    /\ \A i \in HostIdx : WF_vars(\E out \in ProcOutcomes : ProbeFinish(i, out))

\* ======================================================================
\* Properties
\* ======================================================================

\* sweep_network is over: it returned or an exception left it
SweepOver == pc \in {"after_sweep", "exited"}
ReturnedNormally == SweepOver /\ raised = "none"

\* the entries of results recorded for host i
EntriesOf(i) == {k \in 1..Len(results) : results[k][1] = hosts[i]}

\* C1: at every moment the number of ping_once calls that have started and
\* not yet returned or raised is at most the threads parameter.
C1_InFlightAtMostThreads == Cardinality(Running) <= threads

\* C1 witness: as many probes in flight as there are threads while another
\* submitted probe waits in the queue.
C1_Witness ==
    /\ threads >= 1
    /\ Cardinality(Running) = threads
    /\ queue # <<>>

\* C2: when sweep_network returns normally, results holds exactly one entry
\* for every host of the range and nothing else.
C2_OneEntryPerHost ==
    ReturnedNormally =>
        /\ Len(results) = Len(hosts)
        /\ \A i \in DOMAIN hosts : Cardinality(EntriesOf(i)) = 1
        /\ \A k \in 1..Len(results) : \E i \in DOMAIN hosts : results[k][1] = hosts[i]

\* C2 witness: a normal return over two hosts, one probe having returned
\* True and the other having raised, collected in reverse host order.
C2_Witness ==
    /\ ReturnedNormally
    /\ Len(hosts) = 2
    /\ fres[1] = "True"
    /\ fres[2] = "PermissionError"
    /\ results[1][1] = hosts[2]

\* the address order of two dotted quads
IpLess(a, b) == AddrInt(a) < AddrInt(b)

RECURSIVE InsertByIp(_, _)
InsertByIp(e, sq) ==
    IF sq = <<>> THEN <<e>>
    ELSE IF IpLess(e[1], Head(sq)[1]) THEN <<e>> \o sq
    ELSE <<Head(sq)>> \o InsertByIp(e, Tail(sq))

\* a sequence of (ip, up) pairs sorted by ascending address
RECURSIVE SortByIp(_)
SortByIp(sq) == IF sq = <<>> THEN <<>> ELSE InsertByIp(Head(sq), SortByIp(Tail(sq)))

\* the sequence in host-range order that pairs every host with what its own
\* probe yielded (True only when ping_once returned True)
OutcomesInRangeOrder == [i \in DOMAIN hosts |-> <<hosts[i], fres[i] = "True">>]

C4_TransportErrorAborts ==
    \A i \in yielded :
        fres[i] = "RuntimeError" =>
            /\ \A k \in 1..Len(results) : results[k] # <<hosts[i], FALSE>>
            /\ SweepOver => raised = "RuntimeError"

\* C5: once the collection loop has seen a TransportError, no probe is
\* started any more.
C5_NoStartAfterTransportError ==
    [][(\E i \in yielded : fres[i] = "RuntimeError") =>
          \A i \in DOMAIN fstate : fstate'[i] = "RUNNING" => fstate[i] = "RUNNING"]_vars

Logged(kind) == {k \in 1..Len(log) : log[k].kind = kind}

\* C6: a finished run (not cut short by a KeyboardInterrupt) in which a probe
\* met a TransportError has logged a critical message, no summary line, and
\* has a non-zero exit status; a finished run over a valid range that met
\* none has logged the summary exactly once and has exit status 0.
C6_ExitBehaviour ==
    (pc = "exited" /\ raised # "KeyboardInterrupt") =>
        IF \E i \in DOMAIN fres : fres[i] = "RuntimeError"
        THEN /\ \E k \in Logged("critical") : log[k].level = "CRITICAL"
             /\ Logged("finished") = {}
             /\ exitStatus # 0
        ELSE raised # "ValueError" =>
                /\ Cardinality(Logged("finished")) = 1
                /\ exitStatus = 0

\* C7: every ping_once call that has started eventually returns or raises.
C7_ProbeReturns ==
    \A i \in HostIdx :
        (i \in DOMAIN fstate /\ fstate[i] = "RUNNING")
            ~> (i \in DOMAIN fstate /\ fstate[i] = "FINISHED")

\* C8: when sweep_network is over, by return or by an exception leaving the
\* collection loop, no submitted probe is pending or running.
C8_NoProbeLeftAtReturn ==
    SweepOver => \A i \in DOMAIN fstate : fstate[i] \notin {"PENDING", "RUNNING"}

\* C8 witness: an exception left the with block while both hosts were
\* submitted and neither collected; both probes have finished at the return.
C8_Witness ==
    /\ pc = "after_sweep"
    /\ raised = "KeyboardInterrupt"
    /\ Len(hosts) = 2
    /\ yielded = {}
    /\ \A i \in DOMAIN fstate : fstate[i] = "FINISHED"

\* C9: an exception of a probe other than a TransportError never leaves the
\* collection loop: the host it belongs to is recorded Down, every collected
\* host whose probe returned is recorded with its own return value, and the
\* loop is left without an exception only after every host was collected.
C9_OtherExceptionIsDown ==
    /\ raised \in {"none", "ValueError", "KeyboardInterrupt"}
    /\ \A i \in yielded :
          /\ fres[i] = "PermissionError" =>
                \E k \in 1..Len(results) : results[k] = <<hosts[i], FALSE>>
          /\ fres[i] \in {"True", "False"} =>
                \E k \in 1..Len(results) : results[k] = <<hosts[i], fres[i] = "True">>
    /\ (pc \in {"shutdown", "after_sweep", "exited"} /\ raised = "none")
          => yielded = DOMAIN fstate

\* C9 witness: the first collected probe raised PermissionError, the sweep
\* went on and returned normally with the other host recorded Up.
C9_Witness ==
    /\ ReturnedNormally
    /\ Len(hosts) = 2
    /\ \E i, j \in DOMAIN hosts :
          /\ fres[i] = "PermissionError"
          /\ fres[j] = "True"
          /\ results = <<<<hosts[i], FALSE>>, <<hosts[j], TRUE>>>>

\* the string is no CIDR notation: four address fields of 0..255 and a prefix
\* length of 0..32
Malformed(n) ==
    \/ Len(n.octets) # 4
    \/ \E k \in DOMAIN n.octets : n.octets[k] < 0 \/ n.octets[k] > 255
    \/ n.prefix < 0
    \/ n.prefix > 32

\* C10: for a string that is no valid CIDR notation nothing is ever
\* submitted, started or recorded, and the sweep ends with an error.
C10_InvalidCidrProbesNothing ==
    Malformed(args.network) =>
        /\ nsub = 0
        /\ queue = <<>>
        /\ nthreads = 0
        /\ fstate = <<>>
        /\ cmd = <<>>
        /\ results = <<>>
        /\ pc \notin {"submit", "collect", "shutdown"}
        /\ SweepOver => raised = "ValueError"

\* C10 witness: the run over a malformed string has ended, with the error.
C10_Witness ==
    /\ Malformed(args.network)
    /\ pc = "exited"
    /\ raised = "ValueError"
    /\ exitStatus = 1

\* C11: ping_once is started at most once for a host, whatever its first
\* attempt gave; a probe that runs or has finished was started once, and at a
\* normal return every host of the range was started exactly once.
C11_ProbedExactlyOnce ==
    /\ \A i \in DOMAIN nstart :
          /\ nstart[i] <= 1
          /\ fstate[i] \in {"RUNNING", "FINISHED"} => nstart[i] = 1
    /\ ReturnedNormally => \A i \in DOMAIN hosts : nstart[i] = 1

\* C11 witness: a normal return over two hosts whose probes returned False
\* and raised, each started once.
C11_Witness ==
    /\ ReturnedNormally
    /\ Len(hosts) = 2
    /\ fres[1] = "False"
    /\ fres[2] = "RuntimeError"
    /\ \A i \in DOMAIN hosts : nstart[i] = 1

\* the hosts whose probe returned reachable
UpHosts == {i \in DOMAIN fres : fres[i] = "True"}

\* C12: the summary line carries total = number of hosts of the range and
\* up = number of hosts whose probe returned reachable, so that
\* down = total - up is the number of the other hosts; the same counts hold
\* of the returned list.
C12_SummaryCounts ==
    /\ \A k \in Logged("finished") :
          /\ log[k].b = Len(hosts)
          /\ log[k].a = Cardinality(UpHosts)
          /\ log[k].b - log[k].a = Cardinality(DOMAIN hosts \ UpHosts)
    /\ ReturnedNormally =>
          /\ Len(results) = Len(hosts)
          /\ UpCount = Cardinality(UpHosts)

\* C12 witness: the summary of a two-host range with one host up and one
\* down, the down host collected first.
C12_Witness ==
    /\ pc = "exited"
    /\ Len(hosts) = 2
    /\ fres = <<"True", "False">>
    /\ order = <<2, 1>>
    /\ \E k \in Logged("finished") : log[k].a = 1 /\ log[k].b = 2

\* C13: once main has made the call, the pool size and the timeout are at
\* least 1 whatever --threads and --timeout were, the pool never holds more
\* workers than that size, and every ping command was built from a timeout
\* of at least 1.
C13_ClampedArguments ==
    pc # "main" =>
        /\ threads >= 1
        /\ threads = Max(1, args.threads)
        /\ timeout_ms >= 1
        /\ timeout_ms = Max(1, args.timeout)
        /\ nthreads <= threads
        /\ \A i \in DOMAIN cmd :
              cmd[i] # <<>> => cmd[i] = get_ping_command(hosts[i], Max(1, args.timeout))

\* C13 witness: --threads and --timeout both below 1, and a probe started
\* with pool size 1 and timeout 1.
C13_Witness ==
    /\ args.threads < 0
    /\ args.timeout < 0
    /\ threads = 1
    /\ timeout_ms = 1
    /\ \E i \in DOMAIN cmd : cmd[i] # <<>>

IsHostLine(r) == r.kind = "host"

\* the per-host UP/DOWN lines of the log, in order
HostLines == SelectSeq(log, IsHostLine)

\* C14: with quiet set no per-host line is logged; without it there is one
\* line per recorded host, in the order of the entries, with UP/DOWN as
\* recorded. In both cases results is the collection order paired with each
\* host's own outcome and the summary counts are those of the outcomes:
\* neither depends on the flag.
C14_QuietOnlyHidesHostLines ==
    /\ args.quiet => HostLines = <<>>
    /\ ~args.quiet =>
          /\ Len(HostLines) = Len(results)
          /\ \A k \in 1..Len(HostLines) :
                /\ HostLines[k].ip = results[k][1]
                /\ HostLines[k].text = IF results[k][2] THEN "UP" ELSE "DOWN"
    /\ results = [k \in 1..Len(order) |-> <<hosts[order[k]], fres[order[k]] = "True">>]
    /\ \A k \in Logged("finished") :
          log[k].a = Cardinality(UpHosts) /\ log[k].b = Len(hosts)

\* C14 witness: a finished quiet run over two hosts, one up and one down,
\* with both entries recorded, the summary logged and no per-host line.
C14_Witness ==
    /\ args.quiet
    /\ pc = "exited"
    /\ fres = <<"False", "True">>
    /\ Len(results) = 2
    /\ Logged("finished") # {}
    /\ Logged("host") = {}

\* C15: results changes only in a step of the collection loop on the main
\* thread, which appends exactly one entry for the one future it took; no
\* step of a worker (one that changes a future or a ping process) touches it.
C15_SingleWriter ==
    [][results' # results =>
          /\ pc = "collect"
          /\ Len(order') = Len(order) + 1
          /\ Len(results') = Len(results) + 1
          /\ SubSeq(results', 1, Len(results)) = results
          /\ Len(results') = Len(order')
          /\ fstate' = fstate
          /\ proc' = proc]_vars

\* C15 witness: one completion has been recorded while another probe is
\* still running on a worker.
C15_Witness ==
    /\ Len(results) = 1
    /\ Running # {}
    /\ threads = 2

\* ----------------------------------------------------------------------
\* Range expansion on its own: main's call and the first part of
\* sweep_network, over networks of up to MaxExpandBits host bits whose base
\* address has host bits set or not.
WideNetworks ==
    {[octets |-> <<10, 0, c, d>>, prefix |-> p] :
        c \in {0, 1}, d \in {0, 5, 130, 255}, p \in (32 - MaxExpandBits)..30}

ExpandInit ==
    /\ args \in [network : WideNetworks, threads : {1}, timeout : {300},
                 quiet : {FALSE}]
    /\ system = "Linux"
    /\ pc = "main"
    /\ threads = 0
    /\ timeout_ms = 0
    /\ raised = "none"
    /\ hosts = <<>>
    /\ nsub = 0
    /\ fstate = <<>>
    /\ fres = <<>>
    /\ proc = <<>>
    /\ cmd = <<>>
    /\ nstart = <<>>
    /\ queue = <<>>
    /\ nthreads = 0
    /\ idle = 0
    /\ initial = {}
    /\ waiterq = <<>>
    /\ yielded = {}
    /\ order = <<>>
    /\ results = <<>>
    /\ log = <<>>
    /\ exitStatus = -1

ExpandNext ==
    \/ MainCall
    \/ SweepBegin

ExpandSpec == ExpandInit /\ [][ExpandNext]_vars

IsQuad(q) == Len(q) = 4 /\ \A k \in 1..4 : q[k] \in 0..255

\* C16: for an IPv4 network of prefix length at most 30 the host list is,
\* in this order, the addresses net + 1, ..., net + size - 2, where size is
\* the number of addresses of the block and net the start of the block that
\* holds the given address (whether or not its host bits are set): every
\* address strictly between network and broadcast address, ascending, once.
C16_HostsBetweenNetworkAndBroadcast ==
    (pc = "submit" /\ args.network.prefix <= 30) =>
        LET size == 2 ^ (32 - args.network.prefix)
            net == (AddrInt(args.network.octets) \div size) * size
        IN  /\ Len(hosts) = size - 2
            /\ \A k \in 1..Len(hosts) :
                  /\ IsQuad(hosts[k])
                  /\ AddrInt(hosts[k]) = net + k

\* C16 witness: 10.0.0.5/30, host bits set, expands to its two middle
\* addresses 10.0.0.5 and 10.0.0.6.
C16_Witness ==
    /\ pc = "submit"
    /\ args.network = [octets |-> <<10, 0, 0, 5>>, prefix |-> 30]
    /\ hosts = <<<<10, 0, 0, 5>>, <<10, 0, 0, 6>>>>

\* ----------------------------------------------------------------------
\* The ping command on its own: one host, one worker, every --timeout from 0
\* to MaxTimeoutMs, on Windows and on two Unix-like systems, up to the start
\* of the probe.
CmdInit ==
    /\ args \in [network : {[octets |-> <<10, 0, 0, 5>>, prefix |-> 32]},
                 threads : {1}, timeout : 0..MaxTimeoutMs, quiet : {FALSE}]
    /\ system \in {"Windows", "Linux", "Darwin"}
    /\ pc = "main"
    /\ threads = 0
    /\ timeout_ms = 0
    /\ raised = "none"
    /\ hosts = <<>>
    /\ nsub = 0
    /\ fstate = <<>>
    /\ fres = <<>>
    /\ proc = <<>>
    /\ cmd = <<>>
    /\ nstart = <<>>
    /\ queue = <<>>
    /\ nthreads = 0
    /\ idle = 0
    /\ initial = {}
    /\ waiterq = <<>>
    /\ yielded = {}
    /\ order = <<>>
    /\ results = <<>>
    /\ log = <<>>
    /\ exitStatus = -1

CmdNext ==
    \/ MainCall
    \/ SweepBegin
    \/ Submit
    \/ \E i \in HostIdx : ProbeStart(i)

CmdSpec == CmdInit /\ [][CmdNext]_vars

\* C18: the command a started probe runs is, on Windows,
\* ping -n 1 -w <timeout_ms> <ip> with the timeout unchanged; elsewhere
\* ping -c 1 -W <secs> <ip> where secs is the timeout rounded up to whole
\* seconds: secs >= 1, secs * 1000 >= timeout_ms and
\* secs * 1000 < timeout_ms + 1000.
C18_WaitTimeRoundedUp ==
    \A i \in DOMAIN cmd :
        cmd[i] # <<>> =>
            /\ timeout_ms >= 1
            /\ IF system = "Windows"
               THEN cmd[i] = <<"ping", "-n", 1, "-w", timeout_ms, hosts[i]>>
               ELSE /\ Len(cmd[i]) = 6
                    /\ SubSeq(cmd[i], 1, 4) = <<"ping", "-c", 1, "-W">>
                    /\ cmd[i][6] = hosts[i]
                    /\ cmd[i][5] >= 1
                    /\ cmd[i][5] * 1000 >= timeout_ms
                    /\ cmd[i][5] * 1000 < timeout_ms + 1000

\* C18 witness: on a Unix-like system a timeout of 1001 ms becomes a wait of
\* 2 seconds.
C18_Witness ==
    /\ system = "Linux"
    /\ timeout_ms = 1001
    /\ cmd # <<>>
    /\ cmd[1] = <<"ping", "-c", 1, "-W", 2, <<10, 0, 0, 5>>>>

\* no ping process is one that never exits
NoProbeHangs == \A i \in DOMAIN proc : proc[i] # "hung"

\* C17: under fair scheduling of the main thread and the workers, a run in
\* which no started probe stays out for ever reaches the end of
\* sweep_network.
C17_SweepReturns == ([]NoProbeHangs) => <>SweepOver

\* C17 witness: sweep_network has returned normally from a sweep of two
\* hosts on a single worker.
C17_Witness ==
    /\ ReturnedNormally
    /\ threads = 1
    /\ nthreads = 1
    /\ Len(hosts) = 2
    /\ Len(results) = 2

\* C19: the start line is logged once, first of all, before anything is
\* submitted; the summary line is logged at most once, last of all, when
\* every host has been collected and recorded and (unless quiet) has its
\* per-host line; a run that ended normally has exactly one of each.
C19_LogOrder ==
    /\ Cardinality(Logged("start")) <= 1
    /\ (nsub > 0 \/ log # <<>>) => Logged("start") = {1}
    /\ \A k \in Logged("finished") :
          /\ k = Len(log)
          /\ Logged("finished") = {k}
          /\ yielded = DOMAIN hosts
          /\ Len(results) = Len(hosts)
          /\ ~args.quiet => Cardinality(Logged("host")) = Len(hosts)
    /\ (pc = "exited" /\ raised = "none") =>
          Cardinality(Logged("start")) = 1 /\ Cardinality(Logged("finished")) = 1

\* C19 witness: a finished run over two hosts, not quiet, whose log is the
\* start line, the two host lines and the summary.
C19_Witness ==
    /\ pc = "exited"
    /\ ~args.quiet
    /\ Len(hosts) = 2
    /\ Len(log) = 4
    /\ log[1].kind = "start"
    /\ log[2].kind = "host"
    /\ log[3].kind = "host"
    /\ log[4].kind = "finished"

====
